---------------------------- MODULE Spec2Model ----------------------------
(***************************************************************************)
(* Recipe Finder (src/index.js): the ingredient parser and validator, the  *)
(* recursive intersection of the per-ingredient meal lists, the Map-based  *)
(* dedupe, the result display, and the session that main() drives.         *)
(*                                                                         *)
(* JavaScript strings are sequences of one-character strings, so that      *)
(* trim, toLowerCase, split and length are computed and not assumed.       *)
(***************************************************************************)
EXTENDS Integers, Sequences, FiniteSets, TLC

VARIABLES
    raw,          \* validator run: the line typed so far
    ingredients,  \* validator run: parseIngredients(raw)
    thrown,       \* validator run: what validateIngredients threw (or NoError)
    vpc,          \* validator run: "typing" | "validated"
    mealLists,    \* intersection run: the per-ingredient lists
    intersection, \* intersection run: intersectAllRecursively(mealLists)
    uniqueMeals,  \* intersection run: Array.from(buildMealMap(intersection).values())
    ipc,          \* intersection run: "building" | "intersected"
    meals,        \* display run: the list handed to displayMeals
    printed,      \* display run: the lines displayMeals printed
    dpc,          \* display run: "building" | "displayed"
    stack,        \* session: the active invocations of main(), outermost first
    log           \* session: every external effect so far, in order

vars == <<raw, ingredients, thrown, vpc, mealLists, intersection, uniqueMeals,
          ipc, meals, printed, dpc, stack, log>>

valVars == <<raw, ingredients, thrown, vpc>>
intVars == <<mealLists, intersection, uniqueMeals, ipc>>
dspVars == <<meals, printed, dpc>>
sesVars == <<stack, log>>

-----------------------------------------------------------------------------
(* Strings *)

WhiteSpace == {" ", "\t"}

Letters == <<"a", "b", "c", "d", "e", "f", "g", "h", "i", "j", "k", "l", "m",
             "n", "o", "p", "q", "r", "s", "t", "u", "v", "w", "x", "y", "z">>
Capitals == <<"A", "B", "C", "D", "E", "F", "G", "H", "I", "J", "K", "L", "M",
              "N", "O", "P", "Q", "R", "S", "T", "U", "V", "W", "X", "Y", "Z">>

Chars == {Letters[k] : k \in 1..26} \cup {Capitals[k] : k \in 1..26}
            \cup WhiteSpace \cup {","}

\* String.prototype.toLowerCase, character by character (ASCII letters,
\* blanks and the comma)
lowerTable ==
    [c \in Chars |->
        IF \E k \in 1..26 : Capitals[k] = c
        THEN Letters[CHOOSE k \in 1..26 : Capitals[k] = c]
        ELSE c]

LowerChar(c) == lowerTable[c]

toLowerCase(s) == [i \in 1..Len(s) |-> LowerChar(s[i])]

RECURSIVE trimStart(_)
trimStart(s) ==
    IF s # <<>> /\ Head(s) \in WhiteSpace THEN trimStart(Tail(s)) ELSE s

RECURSIVE trimEnd(_)
trimEnd(s) ==
    IF s # <<>> /\ s[Len(s)] \in WhiteSpace
    THEN trimEnd(SubSeq(s, 1, Len(s) - 1))
    ELSE s

trim(s) == trimEnd(trimStart(s))

\* String.prototype.split(","): always at least one piece, "" gives [""]
RECURSIVE splitFrom(_, _, _)
splitFrom(s, i, piece) ==
    IF i > Len(s) THEN <<piece>>
    ELSE IF s[i] = "," THEN <<piece>> \o splitFrom(s, i + 1, <<>>)
    ELSE splitFrom(s, i + 1, Append(piece, s[i]))

split(s) == splitFrom(s, 1, <<>>)

-----------------------------------------------------------------------------
(* parseIngredients, validateIngredients *)

parseMap(pieces) == [i \in 1..Len(pieces) |-> toLowerCase(trim(pieces[i]))]

parseFilter(pieces) == SelectSeq(pieces, LAMBDA s : Len(s) > 0)

parseIngredients(r) == parseFilter(parseMap(split(r)))

NoToken == <<>>
NoError == [message |-> "", token |-> NoToken]
EmptyIngredientList ==
    [message |-> "Please enter at least one ingredient (example: chicken, rice).",
     token |-> NoToken]
TooManyIngredients ==
    [message |-> "Please enter 6 ingredients or fewer (to keep results fast).",
     token |-> NoToken]
IngredientTooShort(t) ==
    [message |-> "Ingredient is too short. Type a real ingredient name.",
     token |-> t]

MaxIngredients == 6
MinIngredientLength == 2

\* ingredients.find((i) => i.length < 2): index of the first hit, 0 for undefined
findTooShort(ings) ==
    IF \E i \in 1..Len(ings) : Len(ings[i]) < MinIngredientLength
    THEN CHOOSE i \in 1..Len(ings) :
            /\ Len(ings[i]) < MinIngredientLength
            /\ \A j \in 1..(i - 1) : ~(Len(ings[j]) < MinIngredientLength)
    ELSE 0

\* if (tooShort): undefined and the empty string are both falsy
truthyTooShort(ings) ==
    /\ findTooShort(ings) # 0
    /\ Len(ings[findTooShort(ings)]) > 0

\* validateIngredients with the count compared by >= (six are refused)
validateIngredients_OffByOne(ings) ==
    IF Len(ings) = 0 THEN EmptyIngredientList
    ELSE IF Len(ings) >= MaxIngredients THEN TooManyIngredients
    ELSE IF truthyTooShort(ings) THEN IngredientTooShort(ings[findTooShort(ings)])
    ELSE NoError

\* validateIngredients without the rule on the length of a token
validateIngredients_NoLengthRule(ings) ==
    IF Len(ings) = 0 THEN EmptyIngredientList
    ELSE IF Len(ings) > MaxIngredients THEN TooManyIngredients
    ELSE NoError

\* The error validateIngredients throws, NoError when it returns normally.
\* (Array.isArray never fails on what parseIngredients returns.)
validateIngredients(ings) ==
    IF Len(ings) = 0 THEN EmptyIngredientList
    ELSE IF Len(ings) > MaxIngredients THEN TooManyIngredients
    ELSE IF truthyTooShort(ings) THEN IngredientTooShort(ings[findTooShort(ings)])
    ELSE NoError

-----------------------------------------------------------------------------
(* Meals.  idMeal is the numeric identifier the API sends as a digit       *)
(* string; two identifiers are === exactly when the numbers are equal.     *)

Meal(id, name) == [idMeal |-> id, strMeal |-> name]

\* A JavaScript Map: its entries in insertion order
EmptyMap == <<>>

mapHas(map, k) == \E i \in 1..Len(map) : map[i].key = k

\* a set that leaves a known key alone
mapSet_KeepFirst(map, k, v) ==
    IF mapHas(map, k) THEN map ELSE Append(map, [key |-> k, value |-> v])

\* Map.prototype.set: a new key goes last, a known key keeps its place and
\* takes the new value
mapSet(map, k, v) ==
    IF mapHas(map, k)
    THEN [i \in 1..Len(map) |->
            IF map[i].key = k THEN [key |-> k, value |-> v] ELSE map[i]]
    ELSE Append(map, [key |-> k, value |-> v])

\* Array.from(map.values())
mapValues(map) == [i \in 1..Len(map) |-> map[i].value]

\* meals.reduce((map, meal) => map.set(meal.idMeal, meal), new Map())
RECURSIVE buildMealMapFrom(_, _, _)
buildMealMapFrom(ms, i, map) ==
    IF i > Len(ms) THEN map
    ELSE buildMealMapFrom(ms, i + 1, mapSet(map, ms[i].idMeal, ms[i]))

buildMealMap(ms) == buildMealMapFrom(ms, 1, EmptyMap)

\* the two lists taken the other way round
intersectTwoLists_Swapped(listA, listB) ==
    SelectSeq(listB, LAMBDA mealB :
        \E j \in 1..Len(listA) : listA[j].idMeal = mealB.idMeal)

intersectTwoLists(listA, listB) ==
    SelectSeq(listA, LAMBDA mealA :
        \E j \in 1..Len(listB) : listB[j].idMeal = mealA.idMeal)

\* the recursion ending one list early: the last list is never looked at
RECURSIVE intersectAllRecursively_StopsEarly(_, _)
intersectAllRecursively_StopsEarly(lists, index) ==
    IF Len(lists) = 0 THEN <<>>
    ELSE IF Len(lists) = 1 THEN lists[1]
    ELSE IF index = Len(lists) - 2 THEN lists[index + 1]
    ELSE intersectTwoLists(lists[index + 1],
                           intersectAllRecursively_StopsEarly(lists, index + 1))

\* index is the JavaScript (0-based) index; lists[index] is lists[index + 1] here
RECURSIVE intersectAllRecursively(_, _)
intersectAllRecursively(lists, index) ==
    IF Len(lists) = 0 THEN <<>>
    ELSE IF Len(lists) = 1 THEN lists[1]
    ELSE IF index = Len(lists) - 1 THEN lists[index + 1]
    ELSE intersectTwoLists(lists[index + 1],
                           intersectAllRecursively(lists, index + 1))

\* main, lines 224-229: what is handed to displayMeals and printSummary
dedupe(ms) == mapValues(buildMealMap(ms))

-----------------------------------------------------------------------------
(* displayMeals, printSummary *)

MAX_RESULTS_TO_SHOW == 10

\* collation weight of a character.  Primary: space first, then the letters
\* without regard to case.  Tertiary: the lower-case letter first.
primaryWeight ==
    [c \in Chars |->
        IF \E k \in 1..26 : Letters[k] = lowerTable[c]
        THEN CHOOSE k \in 1..26 : Letters[k] = lowerTable[c]
        ELSE 0]

charWeight(primary, c) ==
    IF primary THEN primaryWeight[c]
    ELSE IF LowerChar(c) = c THEN 0 ELSE 1

RECURSIVE compareBy(_, _, _, _)
compareBy(primary, a, b, i) ==
    IF i > Len(a) /\ i > Len(b) THEN 0
    ELSE IF i > Len(a) THEN -1
    ELSE IF i > Len(b) THEN 1
    ELSE IF charWeight(primary, a[i]) < charWeight(primary, b[i]) THEN -1
    ELSE IF charWeight(primary, a[i]) > charWeight(primary, b[i]) THEN 1
    ELSE compareBy(primary, a, b, i + 1)

\* a.localeCompare(b) in the default locale, on letters and spaces: the
\* letters decide, and only between strings with the same letters the case
localeCompare(a, b) ==
    LET letters == compareBy(TRUE, a, b, 1)
    IN  IF letters # 0 THEN letters ELSE compareBy(FALSE, a, b, 1)

\* Array.prototype.sort((a, b) => a.strMeal.localeCompare(b.strMeal)) is
\* stable: ms[j] ends before ms[i] when it compares smaller, or compares
\* equal and stood before it
sortsBefore(ms, j, i) ==
    LET c == localeCompare(ms[j].strMeal, ms[i].strMeal)
    IN  c < 0 \/ (c = 0 /\ j < i)

sortByName(ms) ==
    LET place == [i \in 1..Len(ms) |->
                    1 + Cardinality({j \in 1..Len(ms) : sortsBefore(ms, j, i)})]
        from  == [k \in 1..Len(ms) |-> CHOOSE i \in 1..Len(ms) : place[i] = k]
    IN  [k \in 1..Len(ms) |-> ms[from[k]]]

slice(s, from, to) ==
    SubSeq(s, from + 1, IF to < Len(s) THEN to ELSE Len(s))

\* One console.log line: the text, with the values interpolated into it
Line(text, num, str, id) == [text |-> text, num |-> num, str |-> str, id |-> id]
Plain(text) == Line(text, 0, <<>>, 0)

\* the cut made before the sort
shownMeals_SliceFirst(ms) == sortByName(slice(ms, 0, MAX_RESULTS_TO_SHOW))

shownMeals(ms) == slice(sortByName(ms), 0, MAX_RESULTS_TO_SHOW)

\* The lines displayMeals prints
displayMeals(ms) ==
    LET shown == shownMeals(ms) IN
    <<Plain("=== Recipe Finder Results ===")>> \o
    IF Len(ms) = 0
    THEN <<Plain("No matching recipes found for those ingredients.")>>
    ELSE [idx \in 1..Len(shown) |->
            Line("${idx + 1}. ${m.strMeal} (ID: ${m.idMeal})", idx,
                 shown[idx].strMeal, shown[idx].idMeal)]
         \o IF Len(ms) > MAX_RESULTS_TO_SHOW
            THEN <<Line("...and ${meals.length - MAX_RESULTS_TO_SHOW} more",
                        Len(ms) - MAX_RESULTS_TO_SHOW, <<>>, 0)>>
            ELSE <<Plain("")>>

-----------------------------------------------------------------------------
(* The validator on its own: a line is typed piece by piece, then parsed   *)
(* and validated as main does (lines 207-211).                             *)

MaxPieces == 7

\* what may stand between two commas: nothing, blanks, a one-letter name,
\* a padded two-letter name in capitals
Pieces == { <<>>, <<" ">>, <<"a">>, <<" ", "B", "c", " ">> }

numPieces(r) == Len(split(r))

IdleVal == raw = <<>> /\ ingredients = <<>> /\ thrown = NoError /\ vpc = "idle"
IdleInt == mealLists = <<>> /\ intersection = <<>> /\ uniqueMeals = <<>> /\ ipc = "idle"
IdleDsp == meals = <<>> /\ printed = <<>> /\ dpc = "idle"
IdleSes == stack = <<>> /\ log = <<>>

ValInit ==
    /\ raw \in Pieces
    /\ ingredients = <<>>
    /\ thrown = NoError
    /\ vpc = "typing"
    /\ IdleInt /\ IdleDsp /\ IdleSes

TypePiece(p) ==
    /\ vpc = "typing"
    /\ numPieces(raw) < MaxPieces
    /\ raw' = raw \o <<",">> \o p
    /\ UNCHANGED <<ingredients, thrown, vpc, intVars, dspVars, sesVars>>

Validate ==
    /\ vpc = "typing"
    /\ ingredients' = parseIngredients(raw)
    /\ thrown' = validateIngredients(ingredients')
    /\ vpc' = "validated"
    /\ UNCHANGED <<raw, intVars, dspVars, sesVars>>

ValNext ==
    \/ \E p \in Pieces : TypePiece(p)
    \/ Validate

ValSpec == ValInit /\ [][ValNext]_vars

-----------------------------------------------------------------------------
(* The intersection and the dedupe on their own: the lists arrive meal by  *)
(* meal, then main's lines 224-229 run on them.                            *)

MaxLists == 3
MaxMeals == 5

\* the meals a lookup may return: identifier 1 under two names, 2 and 3
KnownMeals == { Meal(1, <<"a">>), Meal(1, <<"b">>), Meal(2, <<"a">>), Meal(3, <<"c">>) }

RECURSIVE totalMeals(_)
totalMeals(lists) ==
    IF lists = <<>> THEN 0 ELSE Len(Head(lists)) + totalMeals(Tail(lists))

IntInit ==
    /\ mealLists = <<>>
    /\ intersection = <<>>
    /\ uniqueMeals = <<>>
    /\ ipc = "building"
    /\ IdleVal /\ IdleDsp /\ IdleSes

AddList ==
    /\ ipc = "building"
    /\ Len(mealLists) < MaxLists
    /\ mealLists' = Append(mealLists, <<>>)
    /\ UNCHANGED <<intersection, uniqueMeals, ipc, valVars, dspVars, sesVars>>

AddMeal(m) ==
    /\ ipc = "building"
    /\ Len(mealLists) > 0
    /\ totalMeals(mealLists) < MaxMeals
    /\ mealLists' = [mealLists EXCEPT ![Len(mealLists)] = Append(@, m)]
    /\ UNCHANGED <<intersection, uniqueMeals, ipc, valVars, dspVars, sesVars>>

Intersect ==
    /\ ipc = "building"
    /\ intersection' = intersectAllRecursively(mealLists, 0)
    /\ uniqueMeals' = dedupe(intersection')
    /\ ipc' = "intersected"
    /\ UNCHANGED <<mealLists, valVars, dspVars, sesVars>>

IntNext ==
    \/ AddList
    \/ \E m \in KnownMeals : AddMeal(m)
    \/ Intersect

IntSpec == IntInit /\ [][IntNext]_vars

-----------------------------------------------------------------------------
(* displayMeals on its own, on lists without repeated identifiers (what    *)
(* the dedupe hands it): the k-th meal has identifier k.                   *)

MaxShown == 11

\* in the default locale "a" sorts before "B"; by code unit it would not
DisplayNames == { <<"B">>, <<"a">> }

DspInit ==
    /\ meals = <<>>
    /\ printed = <<>>
    /\ dpc = "building"
    /\ IdleVal /\ IdleInt /\ IdleSes

AddResult(name) ==
    /\ dpc = "building"
    /\ Len(meals) < MaxShown
    /\ meals' = Append(meals, Meal(Len(meals) + 1, name))
    /\ UNCHANGED <<printed, dpc, valVars, intVars, sesVars>>

Display ==
    /\ dpc = "building"
    /\ printed' = displayMeals(meals)
    /\ dpc' = "displayed"
    /\ UNCHANGED <<meals, valVars, intVars, sesVars>>

DspNext ==
    \/ \E name \in DisplayNames : AddResult(name)
    \/ Display

DspSpec == DspInit /\ [][DspNext]_vars

-----------------------------------------------------------------------------
(* printSummary *)

RECURSIVE join(_, _)
join(strs, sep) ==
    IF strs = <<>> THEN <<>>
    ELSE IF Len(strs) = 1 THEN strs[1]
    ELSE strs[1] \o sep \o join(Tail(strs), sep)

RECURSIVE totalNameChars(_)
totalNameChars(ms) ==
    IF ms = <<>> THEN 0 ELSE Len(Head(ms).strMeal) + totalNameChars(Tail(ms))

YesNo(b) == IF b THEN <<"Y", "e", "s">> ELSE <<"N", "o">>

\* The lines printSummary prints
printSummary(ings, ms) ==
    << Plain("=== Summary ==="),
       Line("Ingredients: ${ingredients.join(\", \")}", 0, join(ings, <<",", " ">>), 0),
       Line("Ingredient count: ${ingredients.length}", Len(ings), <<>>, 0),
       Line("Found recipes: ${meals.length}", Len(ms), <<>>, 0),
       Line("Total recipe name characters: ${totalNameChars}",
            totalNameChars(ms), <<>>, 0),
       Line("Used 3+ ingredients? ${hasManyIngredients ? \"Yes\" : \"No\"}", 0,
            YesNo(Len(ings) >= 3), 0),
       Line("Any results? ${hasAnyResults ? \"Yes\" : \"No\"}", 0,
            YesNo(Len(ms) > 0), 0),
       Plain("") >>

-----------------------------------------------------------------------------
(* The session: main() and its nested re-invocations.                      *)
(*                                                                         *)
(* stack holds one frame per invocation of main() that has not returned:   *)
(* its readline interface, where it waits, and its locals.  log records,   *)
(* in order and tagged with the interface of the invocation they belong    *)
(* to, the external effects: interfaces created and closed, lines printed, *)
(* questions asked, lines read, requests sent and responses received.      *)
(* One action is one run of the event loop from a resumed await to the     *)
(* next await.                                                             *)

MaxCycles == 2

Ev(rl, ev, line) == [rl |-> rl, ev |-> ev, line |-> line]

Frame(rl, pc, ings, lists) ==
    [rl |-> rl, pc |-> pc, ingredients |-> ings, mealLists |-> lists]

top == stack[Len(stack)]
pop(stk) == SubSeq(stk, 1, Len(stk) - 1)

countEv(lg, ev) == Len(SelectSeq(lg, LAMBDA e : e.ev = ev))

\* createInput: a fresh interface; they are numbered as they are created
createInput(lg) == countEv(lg, "createInterface") + 1

\* console.log of each of the lines, on behalf of the invocation owning rl
consoleLog(lg, rl, lines) ==
    lg \o [k \in 1..Len(lines) |-> Ev(rl, "print", lines[k])]

\* ask(rl, question): the prompt is written; the answer comes in a later step
ask(lg, rl, question) == Append(lg, Ev(rl, "question", Plain(question)))

\* the line the user typed, as readline hands it to the pending question
readLine(lg, rl, text) == Append(lg, Ev(rl, "line", Line("", 0, text, 0)))

\* fetchMealsByIngredient up to its await: axios.get(url) is sent
axiosGet(lg, rl, ing) ==
    Append(lg, Ev(rl, "get", Line("${API_BASE}/filter.php?i=${ingredient}", 0, ing, 0)))

\* What the API call may come to: it rejects, or it resolves with
\* { meals: null } or with { meals: [...] }
Response(status, ms) == [status |-> status, meals |-> ms]

axiosResponse(lg, rl, resp) ==
    Append(lg, Ev(rl, "response", Line(resp.status, Len(resp.meals), <<>>, 0)))

LookupFailure == [message |-> "Network Error", token |-> NoToken]

\* a failed request taken for an answer without meals
lookupRejected_Swallowed(resp) == FALSE

\* await axios.get(url) throws when the request fails
lookupRejected(resp) == resp.status = "error"

\* response.data.meals ?? []
fetchMealsByIngredient(resp) ==
    IF resp.status = "null" THEN <<>> ELSE resp.meals

\* the catch block of main
catchBlock(lg, rl, err) ==
    consoleLog(lg, rl,
        << Plain("Something went wrong:"),
           Line(err.message, 0, err.token, 0),
           Plain("Try again with a valid ingredient list.") >>)

\* a finally block that leaves the interface open
finallyBlock_NoClose(lg, rl) == lg

\* the finally block of main: rl.close()
finallyBlock(lg, rl) == Append(lg, Ev(rl, "close", Plain("")))

\* main() from its call to its first await: interface, banner, first question
enterMainLog(lg) ==
    LET rl == createInput(lg) IN
    ask(consoleLog(Append(lg, Ev(rl, "createInterface", Plain(""))), rl,
            << Plain("=== Recipe Finder (JavaScript / Node.js) ==="),
               Plain("Type ingredients separated by commas."),
               Plain("Example: chicken, rice, cheese") >>),
        rl, "Enter ingredients: ")

enterMainFrame(lg) == Frame(createInput(lg), "askIngredients", <<>>, <<>>)

\* the answer trimmed but not lower-cased
normalizeAnswer_NoLowerCase(ans) == trim(ans)

\* (await ask(rl, "Search again? (y/n): ")).trim().toLowerCase()
normalizeAnswer(ans) == toLowerCase(trim(ans))

\* again === "y" || again === "yes"
saidYes(again) == again = <<"y">> \/ again = <<"y", "e", "s">>

\* main, lines 224-236: intersect, dedupe, display, summary, ask again
presentResults(lg, rl, ings, lists) ==
    LET unique == dedupe(intersectAllRecursively(lists, 0)) IN
    ask(consoleLog(consoleLog(lg, rl, displayMeals(unique)),
                   rl, printSummary(ings, unique)),
        rl, "Search again? (y/n): ")

\* what the user may type at "Enter ingredients: "
Inputs ==
    { <<>>,
      <<"a", ",", " ", "E", "g", "g">>,
      <<"R", "i", "c", "e">>,
      <<" ", "e", "g", "g", ",", ",", "r", "i", "c", "e", " ">>,
      <<"a", "b", ",", "c", "d", ",", "e", "f", ",", "g", "h", ",",
        "i", "j", ",", "k", "l", ",", "m", "n">> }

\* what a lookup may come to
Responses ==
    { Response("error", <<>>),
      Response("null", <<>>),
      Response("meals", <<Meal(1, <<"B">>), Meal(2, <<"a">>), Meal(1, <<"a", "b">>)>>),
      Response("meals", <<Meal(2, <<"a">>), Meal(3, <<"c">>), Meal(1, <<"B">>)>>) }

\* what the user may type at "Search again? (y/n): "
Answers ==
    { <<"y">>, <<" ", "Y", "E", "S", " ">>, <<"n">>, <<"y", "e", "a", "h">>, <<>> }

Init ==
    /\ stack = <<>>
    /\ log = <<>>
    /\ IdleVal /\ IdleInt /\ IdleDsp

\* line 254: main()
RunProgram ==
    /\ stack = <<>>
    /\ log = <<>>
    /\ stack' = <<enterMainFrame(log)>>
    /\ log' = enterMainLog(log)
    /\ UNCHANGED <<valVars, intVars, dspVars>>

\* lines 207-221: the ingredients line arrives; parse, validate, and on
\* success send the first lookup
AnswerIngredients(input) ==
    /\ stack # <<>>
    /\ top.pc = "askIngredients"
    /\ LET rl   == top.rl
           lg   == readLine(log, rl, input)
           ings == parseIngredients(input)
           err  == validateIngredients(ings)
       IN  IF err # NoError
           THEN /\ log' = finallyBlock(catchBlock(lg, rl, err), rl)
                /\ stack' = pop(stack)
           ELSE /\ log' = axiosGet(consoleLog(lg, rl, <<Plain("Searching recipes...")>>),
                                   rl, ings[1])
                /\ stack' = [stack EXCEPT ![Len(stack)] =
                                Frame(rl, "fetching", ings, <<>>)]
    /\ UNCHANGED <<valVars, intVars, dspVars>>

\* lines 217-236: a lookup settles; on failure the catch and finally blocks
\* run, otherwise the list is kept and the next lookup is sent or, after the
\* last one, the results are presented and the user is asked to go on
LookupSettles(resp) ==
    /\ stack # <<>>
    /\ top.pc = "fetching"
    /\ LET rl    == top.rl
           ings  == top.ingredients
           ing   == ings[Len(top.mealLists) + 1]
           lg    == axiosResponse(log, rl, resp)
           found == fetchMealsByIngredient(resp)
           lists == Append(top.mealLists, found)
           lg2   == consoleLog(lg, rl,
                        <<Line("- Found ${meals.length} recipes that include ${ing}",
                               Len(found), ing, 0)>>)
       IN  IF lookupRejected(resp)
           THEN /\ log' = finallyBlock(catchBlock(lg, rl, LookupFailure), rl)
                /\ stack' = pop(stack)
           ELSE IF Len(lists) < Len(ings)
           THEN /\ log' = axiosGet(lg2, rl, ings[Len(lists) + 1])
                /\ stack' = [stack EXCEPT ![Len(stack)] =
                                Frame(rl, "fetching", ings, lists)]
           ELSE /\ log' = presentResults(lg2, rl, ings, lists)
                /\ stack' = [stack EXCEPT ![Len(stack)] =
                                Frame(rl, "askAgain", ings, lists)]
    /\ UNCHANGED <<valVars, intVars, dspVars>>

\* lines 236-242: the answer arrives; yes calls main() again, which runs to
\* its first await, anything else says goodbye and falls into finally
AnswerAgain(ans) ==
    /\ stack # <<>>
    /\ top.pc = "askAgain"
    /\ saidYes(normalizeAnswer(ans)) => Len(stack) < MaxCycles
    /\ LET rl == top.rl
           lg == readLine(log, rl, ans)
       IN  IF saidYes(normalizeAnswer(ans))
           THEN LET lg2 == consoleLog(lg, rl,
                              <<Plain("---------------------------------")>>)
                IN  /\ log' = enterMainLog(lg2)
                    /\ stack' = Append([stack EXCEPT ![Len(stack)].pc = "awaitMain"],
                                       enterMainFrame(lg2))
           ELSE /\ log' = finallyBlock(
                              consoleLog(lg, rl, <<Plain("Done. Goodbye!")>>), rl)
                /\ stack' = pop(stack)
    /\ UNCHANGED <<valVars, intVars, dspVars>>

\* lines 239, 248-250: the nested main() has returned; finally, and return
ResumeMain ==
    /\ stack # <<>>
    /\ top.pc = "awaitMain"
    /\ log' = finallyBlock(log, top.rl)
    /\ stack' = pop(stack)
    /\ UNCHANGED <<valVars, intVars, dspVars>>

Next ==
    \/ RunProgram
    \/ \E input \in Inputs : AnswerIngredients(input)
    \/ \E resp \in Responses : LookupSettles(resp)
    \/ \E ans \in Answers : AnswerAgain(ans)
    \/ ResumeMain

Spec == Init /\ [][Next]_vars

-----------------------------------------------------------------------------
(* Claims about the validator (ValSpec) *)

hasShortToken(ings) == \E i \in 1..Len(ings) : Len(ings[i]) < 2

firstShortToken(ings) ==
    ings[CHOOSE i \in 1..Len(ings) :
            Len(ings[i]) < 2 /\ \A j \in 1..(i - 1) : Len(ings[j]) >= 2]

isTooShortError(e) ==
    e.message = "Ingredient is too short. Type a real ingredient name."

\* C3 as stated: validate fails with EmptyIngredientList iff there are zero
\* tokens, with TooManyIngredients iff there are more than 6, with
\* IngredientTooShort iff any token is shorter than 2 characters, and
\* succeeds iff none of the three holds.
C3_AsStated ==
    vpc = "validated" =>
        /\ (thrown = EmptyIngredientList) <=> (Len(ingredients) = 0)
        /\ (thrown = TooManyIngredients) <=> (Len(ingredients) > 6)
        /\ isTooShortError(thrown) <=> hasShortToken(ingredients)
        /\ (thrown = NoError) <=>
              ~(Len(ingredients) = 0 \/ Len(ingredients) > 6
                \/ hasShortToken(ingredients))

\* C3 amended: on the tokens parse yields, validate fails with
\* EmptyIngredientList iff there are zero tokens, with TooManyIngredients iff
\* there are more than 6, and with IngredientTooShort, naming the first token
\* shorter than 2 characters, iff there are between 1 and 6 tokens and one of
\* them is shorter than 2 characters; it succeeds iff none of the three
\* conditions holds.
C3_ValidateInOrder ==
    vpc = "validated" =>
        /\ (thrown = EmptyIngredientList) <=> (Len(ingredients) = 0)
        /\ (thrown = TooManyIngredients) <=> (Len(ingredients) > 6)
        /\ isTooShortError(thrown) <=>
              /\ Len(ingredients) \in 1..6
              /\ hasShortToken(ingredients)
        /\ isTooShortError(thrown) => thrown.token = firstShortToken(ingredients)
        /\ (thrown = NoError) <=>
              ~(Len(ingredients) = 0 \/ Len(ingredients) > 6
                \/ hasShortToken(ingredients))

\* more than 6 tokens, one of them too short: the count decides
C3_Witness ==
    /\ vpc = "validated"
    /\ Len(ingredients) > 6
    /\ hasShortToken(ingredients)
    /\ \E i \in 1..Len(ingredients) : Len(ingredients[i]) >= 2
    /\ thrown = TooManyIngredients

-----------------------------------------------------------------------------
(* Claims about the intersection and the dedupe (IntSpec) *)

idsOf(ms) == {ms[i].idMeal : i \in 1..Len(ms)}

\* the identifiers that occur in the lists and are in every one of them
commonIds(lists) ==
    {id \in UNION {idsOf(lists[i]) : i \in 1..Len(lists)} :
        \A i \in 1..Len(lists) : id \in idsOf(lists[i])}

\* C1: the identifiers of intersectAll(lists), and of the presented list
\* after the dedupe, are exactly the identifiers found in every one of the
\* N >= 0 lists.
C1_IntersectionIdentity ==
    ipc = "intersected" =>
        /\ idsOf(intersection) = commonIds(mealLists)
        /\ idsOf(uniqueMeals) = commonIds(mealLists)

\* three lists, something kept, something dropped, a repeat collapsed
C1_Witness ==
    /\ ipc = "intersected"
    /\ Len(mealLists) = 3
    /\ idsOf(intersection) # {}
    /\ idsOf(intersection) # idsOf(mealLists[1])
    /\ Len(uniqueMeals) < Len(intersection)

inAllOthers(lists, m) ==
    \A i \in 2..Len(lists) : m.idMeal \in idsOf(lists[i])

\* C7: for N >= 2 lists the result is the first list with the entries
\* removed whose identifier is missing from some other list: order and
\* repeats of the first list are kept, and only the identifier sets of the
\* other lists matter.
C7_FirstListFiltered ==
    (ipc = "intersected" /\ Len(mealLists) >= 2) =>
        intersection =
            SelectSeq(mealLists[1], LAMBDA m : inAllOthers(mealLists, m))

\* the first list repeats an identifier, which survives twice in place, and
\* loses the entry between the two; the other list has more identifiers,
\* the surviving one not first
C7_Witness ==
    /\ ipc = "intersected"
    /\ Len(mealLists) >= 2
    /\ Len(mealLists[1]) = 3
    /\ intersection = <<mealLists[1][1], mealLists[1][3]>>
    /\ mealLists[1][1].idMeal = mealLists[1][3].idMeal
    /\ mealLists[1][1] # mealLists[1][3]
    /\ Len(mealLists[2]) = 2
    /\ mealLists[2][2].idMeal = mealLists[1][1].idMeal
    /\ mealLists[2][1].idMeal # mealLists[1][1].idMeal

firstIndexOf(ms, id) == CHOOSE i \in 1..Len(ms) :
    ms[i].idMeal = id /\ \A j \in 1..(i - 1) : ms[j].idMeal # id

lastIndexOf(ms, id) == CHOOSE i \in 1..Len(ms) :
    ms[i].idMeal = id /\ \A j \in (i + 1)..Len(ms) : ms[j].idMeal # id

\* one entry per identifier of X, in the order the identifiers first appear
oneEntryPerIdInFirstSeenOrder(X, out) ==
    /\ Len(out) = Cardinality(idsOf(X))
    /\ idsOf(out) = idsOf(X)
    /\ \A k, l \in 1..Len(out) :
          k < l => firstIndexOf(X, out[k].idMeal) < firstIndexOf(X, out[l].idMeal)

\* C4 as stated: dedupe(X) has exactly one entry per identifier of X, in
\* order of first appearance, and the entry kept is the first-seen record.
C4_AsStated ==
    ipc = "intersected" =>
        /\ oneEntryPerIdInFirstSeenOrder(intersection, uniqueMeals)
        /\ \A k \in 1..Len(uniqueMeals) :
              uniqueMeals[k] =
                  intersection[firstIndexOf(intersection, uniqueMeals[k].idMeal)]

\* C4 amended: dedupe(X) has exactly one entry per identifier of X, in
\* order of first appearance, and the entry kept for an identifier is the
\* last-seen record with it: a later record with an already-seen identifier
\* replaces the kept record but does not change its position.
C4_DedupeKeepsLastInFirstPlace ==
    ipc = "intersected" =>
        /\ oneEntryPerIdInFirstSeenOrder(intersection, uniqueMeals)
        /\ \A k \in 1..Len(uniqueMeals) :
              uniqueMeals[k] =
                  intersection[lastIndexOf(intersection, uniqueMeals[k].idMeal)]

\* an identifier seen again later under another name, with another
\* identifier after its first appearance
C4_Witness ==
    /\ ipc = "intersected"
    /\ Len(intersection) >= 3
    /\ Len(uniqueMeals) = 2
    /\ intersection[1].idMeal # intersection[2].idMeal
    /\ \E j \in 3..Len(intersection) :
          /\ intersection[j].idMeal = intersection[1].idMeal
          /\ intersection[j] # intersection[1]
          /\ uniqueMeals[1] = intersection[j]

-----------------------------------------------------------------------------
(* Claims about displayMeals (DspSpec) *)

entryText == "${idx + 1}. ${m.strMeal} (ID: ${m.idMeal})"
moreText == "...and ${meals.length - MAX_RESULTS_TO_SHOW} more"
noMatchText == "No matching recipes found for those ingredients."

entryLines(lines) == SelectSeq(lines, LAMBDA l : l.text = entryText)
moreLines(lines) == SelectSeq(lines, LAMBDA l : l.text = moreText)
noMatchLines(lines) == SelectSeq(lines, LAMBDA l : l.text = noMatchText)

minOf(a, b) == IF a < b THEN a ELSE b

entryMeal(l) == Meal(l.id, l.str)

\* the entries are numbered from 1, are distinct meals of ms in ascending
\* order of name, and no meal left out sorts before a meal shown
firstOfSorted(ms, entries) ==
    /\ \A k \in 1..Len(entries) : entries[k].num = k
    /\ \A k \in 1..Len(entries) :
          \E i \in 1..Len(ms) : ms[i] = entryMeal(entries[k])
    /\ \A k, l \in 1..Len(entries) :
          k < l => /\ entries[k].id # entries[l].id
                   /\ localeCompare(entries[k].str, entries[l].str) <= 0
    /\ \A i \in 1..Len(ms) :
          (\A k \in 1..Len(entries) : entries[k].id # ms[i].idMeal) =>
              \A k \in 1..Len(entries) :
                  localeCompare(entries[k].str, ms[i].strMeal) <= 0

\* C8: for a deduplicated list of n meals displayMeals shows exactly
\* min(n, 10) entries, the first min(n, 10) of the list sorted ascending by
\* name; it reports a remainder of n - 10 iff n > 10; it shows the
\* no-matches message, and no entry, iff n = 0.
C8_DisplayTruncates ==
    dpc = "displayed" =>
        /\ Len(entryLines(printed)) = minOf(Len(meals), 10)
        /\ firstOfSorted(meals, entryLines(printed))
        /\ (Len(moreLines(printed)) = 1) <=> (Len(meals) > 10)
        /\ Len(moreLines(printed)) <= 1
        /\ \A k \in 1..Len(moreLines(printed)) :
              moreLines(printed)[k].num = Len(meals) - 10
        /\ (Len(noMatchLines(printed)) = 1) <=> (Len(meals) = 0)
        /\ Len(noMatchLines(printed)) <= 1
        /\ Len(noMatchLines(printed)) = 1 => Len(entryLines(printed)) = 0

\* eleven meals that do not arrive sorted; the one left out is not the last
C8_Witness ==
    /\ dpc = "displayed"
    /\ Len(meals) = 11
    /\ Len(entryLines(printed)) = 10
    /\ Len(moreLines(printed)) = 1
    /\ moreLines(printed)[1].num = 1
    /\ \E k \in 1..10 : entryLines(printed)[k].id = 11
    /\ entryLines(printed)[1].id # 1

-----------------------------------------------------------------------------
(* Claims about the session (Spec) *)

Done == stack = <<>> /\ log # <<>>

isPrint(e, text) == e.ev = "print" /\ e.line.text = text
isQuestion(e, text) == e.ev = "question" /\ e.line.text = text

\* log[p] is the line typed in answer to the question `text`
answers(p, text) ==
    /\ p > 1
    /\ log[p].ev = "line"
    /\ isQuestion(log[p - 1], text)
    /\ log[p - 1].rl = log[p].rl

failsValidation(ings) ==
    Len(ings) = 0 \/ Len(ings) > 6 \/ hasShortToken(ings)

\* C2 as stated: a failure in validation or in a lookup is caught, reported
\* and ends only its cycle, after which the user is prompted for
\* ingredients again; the session is Done only once the user has declined
\* to search again.
C2_AsStated ==
    /\ \A p \in 1..Len(log) :
          isPrint(log[p], "Try again with a valid ingredient list.") =>
              \E q \in (p + 1)..Len(log) : isQuestion(log[q], "Enter ingredients: ")
    /\ Done => \E p \in 1..Len(log) : isPrint(log[p], "Done. Goodbye!")

\* C5: in a cycle whose typed line fails validation (no token, more than 6
\* tokens, or a token shorter than 2 characters) no lookup is sent.
C5_NoLookupBeforeValidation ==
    \A p \in 1..Len(log) :
        (/\ answers(p, "Enter ingredients: ")
         /\ failsValidation(parseIngredients(log[p].line.str))) =>
            \A q \in 1..Len(log) : log[q].ev = "get" => log[q].rl # log[p].rl

\* a first cycle that looked two ingredients up, then a second cycle whose
\* line has a too-short token before a good one
C5_Witness ==
    /\ Done
    /\ \E p \in 1..Len(log) :
          /\ answers(p, "Enter ingredients: ")
          /\ log[p].rl = 2
          /\ Len(parseIngredients(log[p].line.str)) = 2
          /\ hasShortToken(parseIngredients(log[p].line.str))
    /\ Len(SelectSeq(log, LAMBDA e : e.ev = "get" /\ e.rl = 1)) = 2

isFailedResponse(e) == e.ev = "response" /\ e.line.text = "error"

\* C6: once a lookup of a cycle has failed, that cycle sends no further
\* lookup (none for a later ingredient, none again for the failed one),
\* keeps nothing of the lists it had, and presents neither results nor a
\* summary.
C6_FailedLookupAbortsCycle ==
    \A p \in 1..Len(log) :
        isFailedResponse(log[p]) =>
            /\ \A q \in (p + 1)..Len(log) :
                  log[q].ev = "get" => log[q].rl # log[p].rl
            /\ \A q \in 1..Len(log) :
                  log[q].rl = log[p].rl =>
                      /\ ~isPrint(log[q], "=== Recipe Finder Results ===")
                      /\ ~isPrint(log[q], "=== Summary ===")
                      /\ ~isQuestion(log[q], "Search again? (y/n): ")
            /\ \A k \in 1..Len(stack) : stack[k].rl # log[p].rl

\* in a second cycle the first of two lookups returned meals and the second
\* failed
C6_Witness ==
    \E p \in 3..Len(log) :
        /\ isFailedResponse(log[p])
        /\ log[p].rl = 2
        /\ \E q \in 1..(p - 1) :
              /\ log[q].ev = "response"
              /\ log[q].rl = 2
              /\ log[q].line.text = "meals"
              /\ log[q].line.num > 0
        /\ Len(SelectSeq(log, LAMBDA e : e.ev = "get" /\ e.rl = 2)) = 2

\* the typed answers that mean yes: y or yes, in any case, blanks around
TypedYes == { <<"y">>, <<" ", "Y", "E", "S", " ">> }

startsNoActivity(e) == e.ev \notin {"question", "line", "get", "response", "createInterface"}

\* C9: after the results, an answer of yes starts a new cycle, which asks
\* for ingredients afresh; any other answer ends the session: the goodbye
\* is printed, and from then on nothing is asked, read, looked up or
\* opened, every invocation left only having to return.
C9_SearchAgain ==
    \A p \in 1..Len(log) :
        answers(p, "Search again? (y/n): ") =>
            IF log[p].line.str \in TypedYes
            THEN /\ Len(log) >= p + 6
                 /\ log[p + 2].ev = "createInterface"
                 /\ log[p + 2].rl = log[p].rl + 1
                 /\ isQuestion(log[p + 6], "Enter ingredients: ")
                 /\ log[p + 6].rl = log[p].rl + 1
                 /\ ~isPrint(log[p + 1], "Done. Goodbye!")
            ELSE /\ Len(log) >= p + 2
                 /\ isPrint(log[p + 1], "Done. Goodbye!")
                 /\ \A q \in (p + 1)..Len(log) : startsNoActivity(log[q])
                 /\ \A k \in 1..Len(stack) : stack[k].pc = "awaitMain"

\* a yes typed in capitals with blanks around, then in the new cycle results
\* again and an answer that merely begins with y
C9_Witness ==
    /\ Done
    /\ \E p, q \in 1..Len(log) :
          /\ p < q
          /\ answers(p, "Search again? (y/n): ")
          /\ log[p].line.str = <<" ", "Y", "E", "S", " ">>
          /\ answers(q, "Search again? (y/n): ")
          /\ log[q].line.str = <<"y", "e", "a", "h">>

created == {log[p].rl : p \in {q \in 1..Len(log) : log[q].ev = "createInterface"}}
closesOf(rl) == Len(SelectSeq(log, LAMBDA e : e.ev = "close" /\ e.rl = rl))
creationsOf(rl) == Len(SelectSeq(log, LAMBDA e : e.ev = "createInterface" /\ e.rl = rl))
active == {stack[k].rl : k \in 1..Len(stack)}
eventsOf(ev) == SelectSeq(log, LAMBDA e : e.ev = ev)

\* C10: an interface stays open as long as its invocation of main() has not
\* returned, so through every later cycle, and is closed exactly once when
\* it returns; the interfaces are closed in the reverse of the order they
\* were created in; when the session is done every interface created has
\* been closed exactly once.
C10_InterfacesClosedOnce ==
    /\ active \subseteq created
    /\ \A rl \in created :
          /\ creationsOf(rl) = 1
          /\ closesOf(rl) = IF rl \in active THEN 0 ELSE 1
    /\ \A k \in 1..(Len(eventsOf("close")) - 1) :
          eventsOf("close")[k].rl > eventsOf("close")[k + 1].rl
    /\ \A k \in 1..(Len(eventsOf("createInterface")) - 1) :
          eventsOf("createInterface")[k].rl < eventsOf("createInterface")[k + 1].rl
    /\ \A p \in 1..Len(log) :
          log[p].ev = "close" => \A q \in (p + 1)..Len(log) : log[q].rl < log[p].rl
    /\ Done => \A rl \in created : closesOf(rl) = 1

\* two nested cycles, the inner one ended by a failure; both closed
C10_Witness ==
    /\ Done
    /\ created = {1, 2}
    /\ \E p \in 1..Len(log) : log[p].rl = 2 /\ isFailedResponse(log[p])
    /\ log[Len(log)] = Ev(1, "close", Plain(""))
    /\ log[Len(log) - 1] = Ev(2, "close", Plain(""))

=============================================================================
